---- MODULE Spec2Model ----
(***************************************************************************)
(* Model of the CarbonCredits ledger contract (ERC20 + Ownable + Pausable  *)
(* + ReentrancyGuard) of AgroCarbon360.  The contract source is the        *)
(* Solidity text at src/blockchain/hardhat/test/CarbonCredits.test.js      *)
(* lines 294-524.  The inherited OpenZeppelin 4.x behaviour (ERC20._mint,  *)
(* _burn, _transfer, allowances, Ownable.onlyOwner, Pausable) is modelled  *)
(* at the place the contract uses it.                                      *)
(*                                                                         *)
(* One step of the model is one external call (a transaction): it either   *)
(* reverts, leaving the ledger as it was, or applies its whole effect.     *)
(* The variable last records the call just made and how it ended.          *)
(***************************************************************************)
EXTENDS Integers, Sequences, FiniteSets, TLC

\* ------------------------------------------------------------------ bounds
\* totalMinted is capped: a mint that would exceed the cap is not issued.
MaxMinted == 3
\* block.timestamp ranges over 1..MaxTime.
MaxTime == 2
\* largest amount passed to a call
MaxAmount == 2
\* the supply the standalone token is followed up to
MaxSupply == 3
\* the ADC readings and calibration values run over 0..MaxRaw (uint16_t in the code)
MaxRaw == 8

\* ------------------------------------------------------------- identities
ZeroAddress == "0x0"
Deployer == "owner"
Addr == {ZeroAddress, Deployer, "A", "B"}
\* msg.sender is never the zero address
Senders == Addr \ {ZeroAddress}

Amounts == 0..MaxAmount

\* verified project records handed to mintCarbonCredits (two well-formed,
\* one without project id, one without verification id)
MintRecords ==
  { [projectId |-> "P1", verificationId |-> "V1", methodology |-> "IPCC Tier 1",
     location |-> "India", vintageYear |-> 2023],
    [projectId |-> "P2", verificationId |-> "V2", methodology |-> "",
     location |-> "", vintageYear |-> 0],
    [projectId |-> "", verificationId |-> "V1", methodology |-> "IPCC Tier 1",
     location |-> "India", vintageYear |-> 2023],
    [projectId |-> "P1", verificationId |-> "", methodology |-> "IPCC Tier 1",
     location |-> "India", vintageYear |-> 2023] }

\* ------------------------------------------------------------------ state
VARIABLES
  _owner,          \* Ownable._owner
  _paused,         \* Pausable._paused
  _balances,       \* ERC20._balances
  _allowances,     \* ERC20._allowances, <<owner, spender>> -> amount
  _totalSupply,    \* ERC20._totalSupply
  creditMetadata,  \* mapping(uint256 => CarbonCreditMetadata): the written keys
  totalMinted,
  totalRetired,
  verifiers,       \* mapping(address => bool)
  now,             \* block.timestamp
  last,            \* the call just made and its outcome
  mintLog,         \* history: the project records of the successful mints, in order
  standalone,      \* contracts/CarbonCredits.sol: owner, totalSupply, balances
                   \* and the outcome of the call just made
  esp32,           \* esp32_main.ino: build flags, position in setup()/loop(),
                   \* "sent", the sends of this iteration, the line printed
  wifi,            \* wifi_init(): position, "attempts", "tries", the reads of
                   \* WiFi.status() and mqttClient.connected(), the result
  soil             \* SoilSensor: _dryRaw, _wetRaw, the raw value of the last
                   \* readMoisture() and the value it returned

ledger == <<_owner, _paused, _balances, _allowances, _totalSupply,
            creditMetadata, totalMinted, totalRetired, verifiers>>
\* the registry contract of hardhat/test/CarbonCredits.test.js and its chain
registry == <<_owner, _paused, _balances, _allowances, _totalSupply,
              creditMetadata, totalMinted, totalRetired, verifiers, now, last, mintLog>>
\* the programs of the repository beside the registry contract
firmware == <<esp32, wifi, soil>>
outside == <<standalone, firmware>>
vars == <<registry, outside>>

\* ---------------------------------------------------------------- helpers
\* storage default of a CarbonCreditMetadata slot that was never written
EmptyMetadata ==
  [projectId |-> "", verificationId |-> "", verificationDate |-> 0,
   methodology |-> "", location |-> "", vintageYear |-> 0,
   isRetired |-> FALSE, retirementReason |-> "", retirementDate |-> 0]

\* creditMetadata[i] as the EVM reads it
Meta(i) == IF i \in DOMAIN creditMetadata THEN creditMetadata[i] ELSE EmptyMetadata

\* creditMetadata[i] = m
StoreMeta(i, m) ==
  [k \in (DOMAIN creditMetadata) \cup {i} |-> IF k = i THEN m ELSE creditMetadata[k]]

balanceOf(a) == _balances[a]
owner == _owner

\* the retirement loop without its "if (!creditMetadata[i].isRetired)"
ScanAnySlot(i) == IF i >= totalMinted THEN -1 ELSE i

\* a retirement loop that passes over the slots no mint has written
RECURSIVE ScanWrittenSlots(_)
ScanWrittenSlots(i) ==
  IF i >= totalMinted THEN -1
  ELSE IF i \in DOMAIN creditMetadata /\ ~Meta(i).isRetired THEN i
  ELSE ScanWrittenSlots(i + 1)

\* the retirement loop: first i in i0..totalMinted-1 with !isRetired, or -1
RECURSIVE ScanUnretired(_)
ScanUnretired(i) ==
  IF i >= totalMinted THEN -1
  ELSE IF ~Meta(i).isRetired THEN i
  ELSE ScanUnretired(i + 1)

Sum(f, S) ==
  LET RECURSIVE Acc(_)
      Acc(T) == IF T = {} THEN 0
                ELSE LET x == CHOOSE y \in T : TRUE IN f[x] + Acc(T \ {x})
  IN Acc(S)

\* outcome record of a call: the function called, msg.sender, and "ok" or the
\* revert reason
Call(op, sender, result) ==
  [op |-> op, sender |-> sender, result |-> result, emitted |-> <<>>]

OK == "ok"

\* a call that went through, with the events of the contract it emitted
Emit(op, sender, events) ==
  [op |-> op, sender |-> sender, result |-> OK, emitted |-> events]

\* a mint event that carries the batch key in place of the amount
CarbonCreditMintedKey(to, amount, projectId, verificationId, verificationDate) ==
  [event |-> "CarbonCreditMinted", to |-> to, amount |-> totalMinted,
   projectId |-> projectId, verificationId |-> verificationId,
   verificationDate |-> verificationDate]

\* the events the contract declares
CarbonCreditMinted(to, amount, projectId, verificationId, verificationDate) ==
  [event |-> "CarbonCreditMinted", to |-> to, amount |-> amount,
   projectId |-> projectId, verificationId |-> verificationId,
   verificationDate |-> verificationDate]

CarbonCreditRetired(from, amount, reason, retirementDate) ==
  [event |-> "CarbonCreditRetired", from |-> from, amount |-> amount,
   reason |-> reason, retirementDate |-> retirementDate]

VerifierAdded(verifier) == [event |-> "VerifierAdded", verifier |-> verifier]
VerifierRemoved(verifier) == [event |-> "VerifierRemoved", verifier |-> verifier]

\* a failure reported without rolling back: a record marked by the retirement
\* loop stays marked
RevertWithoutRollback(op, sender, msg) ==
  /\ last' = Call(op, sender, msg)
  /\ creditMetadata' = [i \in DOMAIN creditMetadata |->
                          [creditMetadata[i] EXCEPT !.isRetired = TRUE]]
  /\ UNCHANGED <<_owner, _paused, _balances, _allowances, _totalSupply,
                 totalMinted, totalRetired, verifiers, now, mintLog, outside>>

\* a reverted call: nothing but the call record changes
Revert(op, sender, msg) ==
  /\ last' = Call(op, sender, msg)
  /\ UNCHANGED <<ledger, now, mintLog, outside>>

\* wifi_init() not running
WifiIdle ==
  [pc |-> "idle", attempts |-> 0, tries |-> 0, polls |-> 0, connects |-> 0,
   status |-> "", mqtt |-> FALSE, ret |-> FALSE]

\* ------------------------------------------------------------------- init
Init ==
  /\ _owner = Deployer
  /\ _paused = FALSE
  /\ _balances = [a \in Addr |-> 0]
  /\ _allowances = [p \in Addr \X Addr |-> 0]
  /\ _totalSupply = 0
  /\ creditMetadata = <<>>
  /\ totalMinted = 0
  /\ totalRetired = 0
  /\ verifiers = [a \in Addr |-> FALSE]
  /\ now = 1
  /\ last = Call("constructor", Deployer, OK)
  /\ mintLog = <<>>
  /\ standalone = [owner |-> Deployer, totalSupply |-> 0,
                   balances |-> [a \in Addr |-> 0],
                   last |-> [op |-> "constructor", sender |-> Deployer, result |-> OK]]
  /\ esp32 = [pc |-> "build", flags |-> {}, sent |-> FALSE, attempted |-> <<>>,
              report |-> ""]
  /\ wifi = WifiIdle
  /\ soil = [pc |-> "none", _dryRaw |-> 0, _wetRaw |-> 0, raw |-> 0, moisture |-> 0]

\* ---------------------------------------------------------------- actions
\* onlyVerifier without its "|| msg.sender == owner()"
MintResultVerifierOnly(sender, to, amount, rec) ==
  IF ~verifiers[sender] THEN "Only verifier or owner"
  ELSE IF _paused THEN "Pausable: paused"
  ELSE IF to = ZeroAddress THEN "Invalid recipient address"
  ELSE IF ~(amount > 0) THEN "Amount must be greater than 0"
  ELSE IF ~(Len(rec.projectId) > 0) THEN "Project ID cannot be empty"
  ELSE IF ~(Len(rec.verificationId) > 0) THEN "Verification ID cannot be empty"
  ELSE OK

\* whenNotPaused listed before onlyVerifier
MintResultPauseFirst(sender, to, amount, rec) ==
  IF _paused THEN "Pausable: paused"
  ELSE IF ~(verifiers[sender] \/ sender = owner) THEN "Only verifier or owner"
  ELSE IF to = ZeroAddress THEN "Invalid recipient address"
  ELSE IF ~(amount > 0) THEN "Amount must be greater than 0"
  ELSE IF ~(Len(rec.projectId) > 0) THEN "Project ID cannot be empty"
  ELSE IF ~(Len(rec.verificationId) > 0) THEN "Verification ID cannot be empty"
  ELSE OK

\* mintCarbonCredits without the onlyVerifier modifier
MintResultNoRoleCheck(sender, to, amount, rec) ==
  IF _paused THEN "Pausable: paused"
  ELSE IF to = ZeroAddress THEN "Invalid recipient address"
  ELSE IF ~(amount > 0) THEN "Amount must be greater than 0"
  ELSE IF ~(Len(rec.projectId) > 0) THEN "Project ID cannot be empty"
  ELSE IF ~(Len(rec.verificationId) > 0) THEN "Verification ID cannot be empty"
  ELSE OK

\* mintCarbonCredits without its require on projectId
MintResultNoProjectCheck(sender, to, amount, rec) ==
  IF ~(verifiers[sender] \/ sender = owner) THEN "Only verifier or owner"
  ELSE IF _paused THEN "Pausable: paused"
  ELSE IF to = ZeroAddress THEN "Invalid recipient address"
  ELSE IF ~(amount > 0) THEN "Amount must be greater than 0"
  ELSE IF ~(Len(rec.verificationId) > 0) THEN "Verification ID cannot be empty"
  ELSE OK

\* revert reason of mintCarbonCredits, "ok" when it goes through: the
\* modifiers onlyVerifier, nonReentrant, whenNotPaused in that order, then the
\* requires of the body
MintResult(sender, to, amount, rec) ==
  IF ~(verifiers[sender] \/ sender = owner) THEN "Only verifier or owner"
  ELSE IF _paused THEN "Pausable: paused"
  ELSE IF to = ZeroAddress THEN "Invalid recipient address"
  ELSE IF ~(amount > 0) THEN "Amount must be greater than 0"
  ELSE IF ~(Len(rec.projectId) > 0) THEN "Project ID cannot be empty"
  ELSE IF ~(Len(rec.verificationId) > 0) THEN "Verification ID cannot be empty"
  ELSE OK

\* the record stored under totalRetired in place of totalMinted
MintKeyRetired == totalRetired

\* a key that numbers the batches 0, 1, 2, ... in mint order
MintKeySequence == Len(mintLog)

\* the key of "creditMetadata[totalMinted] = metadata"
MintKey == totalMinted

\* the CarbonCreditMetadata struct mintCarbonCredits builds
NewMetadata(rec) ==
  [projectId |-> rec.projectId,
   verificationId |-> rec.verificationId,
   verificationDate |-> now,
   methodology |-> rec.methodology,
   location |-> rec.location,
   vintageYear |-> rec.vintageYear,
   isRetired |-> FALSE,
   retirementReason |-> "",
   retirementDate |-> 0]

mintCarbonCredits(sender, to, amount, rec) ==
  LET res == MintResult(sender, to, amount, rec)
  IN IF res # OK THEN Revert("mintCarbonCredits", sender, res)
     ELSE /\ creditMetadata' = StoreMeta(MintKey, NewMetadata(rec))
          /\ _totalSupply' = _totalSupply + amount
          /\ _balances' = [_balances EXCEPT ![to] = @ + amount]
          /\ totalMinted' = totalMinted + amount
          /\ last' = Emit("mintCarbonCredits", sender,
                          <<CarbonCreditMinted(to, amount, rec.projectId,
                                               rec.verificationId, now)>>)
          /\ mintLog' = Append(mintLog, rec)
          /\ UNCHANGED <<_owner, _paused, _allowances, totalRetired, verifiers, now,
                         outside>>

\* retireCarbonCredits without whenNotPaused
RetireResultNoPause(sender, amount, reason) ==
  IF ~(amount > 0) THEN "Amount must be greater than 0"
  ELSE IF ~(balanceOf(sender) >= amount) THEN "Insufficient balance"
  ELSE IF ~(Len(reason) > 0) THEN "Retirement reason cannot be empty"
  ELSE OK

\* retireCarbonCredits without its require on the reason
RetireResultNoReasonCheck(sender, amount, reason) ==
  IF _paused THEN "Pausable: paused"
  ELSE IF ~(amount > 0) THEN "Amount must be greater than 0"
  ELSE IF ~(balanceOf(sender) >= amount) THEN "Insufficient balance"
  ELSE OK

\* retireCarbonCredits behind the onlyVerifier modifier of the mint
RetireResultVerifierOnly(sender, amount, reason) ==
  IF ~(verifiers[sender] \/ sender = owner) THEN "Only verifier or owner"
  ELSE IF _paused THEN "Pausable: paused"
  ELSE IF ~(amount > 0) THEN "Amount must be greater than 0"
  ELSE IF ~(balanceOf(sender) >= amount) THEN "Insufficient balance"
  ELSE IF ~(Len(reason) > 0) THEN "Retirement reason cannot be empty"
  ELSE OK

\* revert reason of retireCarbonCredits: nonReentrant, whenNotPaused, then the
\* requires of the body
RetireResult(sender, amount, reason) ==
  IF _paused THEN "Pausable: paused"
  ELSE IF ~(amount > 0) THEN "Amount must be greater than 0"
  ELSE IF ~(balanceOf(sender) >= amount) THEN "Insufficient balance"
  ELSE IF ~(Len(reason) > 0) THEN "Retirement reason cannot be empty"
  ELSE OK

\* the body of the retirement loop on the slot it stops at
MarkRetired(i, reason) ==
  StoreMeta(i, [Meta(i) EXCEPT !.isRetired = TRUE,
                               !.retirementReason = reason,
                               !.retirementDate = now])

\* a retirement that forgets to count what it burned
RetiredTotalStale(amount) == totalRetired

\* "totalRetired = amount" in place of "+="
RetiredTotalAssigned(amount) == amount

\* "totalRetired += amount"
RetiredTotal(amount) == totalRetired + amount

retireCarbonCredits(sender, amount, reason) ==
  LET res == RetireResult(sender, amount, reason)
      i == ScanUnretired(0)
  IN IF res # OK THEN Revert("retireCarbonCredits", sender, res)
     ELSE /\ creditMetadata' = IF i = -1 THEN creditMetadata ELSE MarkRetired(i, reason)
          /\ _balances' = [_balances EXCEPT ![sender] = @ - amount]
          /\ _totalSupply' = _totalSupply - amount
          /\ totalRetired' = RetiredTotal(amount)
          /\ last' = Emit("retireCarbonCredits", sender,
                          <<CarbonCreditRetired(sender, amount, reason, now)>>)
          /\ UNCHANGED <<_owner, _paused, _allowances, totalMinted, verifiers, now, mintLog, outside>>

\* ERC20._transfer(from, to, amount)
TransferCheck(from, to, amount) ==
  IF from = ZeroAddress THEN "ERC20: transfer from the zero address"
  ELSE IF to = ZeroAddress THEN "ERC20: transfer to the zero address"
  ELSE IF ~(_balances[from] >= amount) THEN "ERC20: transfer amount exceeds balance"
  ELSE OK

\* a _transfer that credits the recipient and forgets to debit the sender
MoveBalanceCreditOnly(from, to, amount) == [_balances EXCEPT ![to] = @ + amount]

\* the balance update of ERC20._transfer
MoveBalance(from, to, amount) ==
  LET debited == [_balances EXCEPT ![from] = @ - amount]
  IN [debited EXCEPT ![to] = @ + amount]

\* transfer without whenNotPaused
TransferResultNoPause(sender, to, amount) == TransferCheck(sender, to, amount)

\* revert reason of transfer: whenNotPaused, then ERC20._transfer
TransferResult(sender, to, amount) ==
  IF _paused THEN "Pausable: paused"
  ELSE TransferCheck(sender, to, amount)

transfer(sender, to, amount) ==
  LET res == TransferResult(sender, to, amount)
  IN IF res # OK THEN Revert("transfer", sender, res)
     ELSE /\ _balances' = MoveBalance(sender, to, amount)
          /\ last' = Call("transfer", sender, OK)
          /\ UNCHANGED <<_owner, _paused, _allowances, _totalSupply, creditMetadata,
                         totalMinted, totalRetired, verifiers, now, mintLog, outside>>

\* transferFrom without whenNotPaused
TransferFromResultNoPause(sender, from, to, amount) ==
  IF ~(_allowances[<<from, sender>>] >= amount) THEN "ERC20: insufficient allowance"
  ELSE IF from = ZeroAddress THEN "ERC20: approve from the zero address"
  ELSE TransferCheck(from, to, amount)

\* ERC20.transferFrom: _spendAllowance(from, sender, amount), then _transfer
TransferFromResult(sender, from, to, amount) ==
  IF _paused THEN "Pausable: paused"
  ELSE IF ~(_allowances[<<from, sender>>] >= amount) THEN "ERC20: insufficient allowance"
  ELSE IF from = ZeroAddress THEN "ERC20: approve from the zero address"
  ELSE TransferCheck(from, to, amount)

transferFrom(sender, from, to, amount) ==
  LET res == TransferFromResult(sender, from, to, amount)
  IN IF res # OK THEN Revert("transferFrom", sender, res)
     ELSE /\ _allowances' = [_allowances EXCEPT ![<<from, sender>>] = @ - amount]
          /\ _balances' = MoveBalance(from, to, amount)
          /\ last' = Call("transferFrom", sender, OK)
          /\ UNCHANGED <<_owner, _paused, _totalSupply, creditMetadata,
                         totalMinted, totalRetired, verifiers, now, mintLog, outside>>

\* ERC20.approve is inherited unchanged: it has no whenNotPaused
ApproveResult(sender, spender, amount) ==
  IF spender = ZeroAddress THEN "ERC20: approve to the zero address" ELSE OK

approve(sender, spender, amount) ==
  LET res == ApproveResult(sender, spender, amount)
  IN IF res # OK THEN Revert("approve", sender, res)
     ELSE /\ _allowances' = [_allowances EXCEPT ![<<sender, spender>>] = amount]
          /\ last' = Call("approve", sender, OK)
          /\ UNCHANGED <<_owner, _paused, _balances, _totalSupply, creditMetadata,
                         totalMinted, totalRetired, verifiers, now, mintLog, outside>>

\* an owner check that lets the verifiers through as well
OnlyOwnerOrVerifier(sender) ==
  IF sender # owner /\ ~verifiers[sender] THEN "Ownable: caller is not the owner" ELSE OK

\* Ownable.onlyOwner
OnlyOwner(sender) ==
  IF sender # owner THEN "Ownable: caller is not the owner" ELSE OK

\* addVerifier without its require "Invalid verifier address"
AddVerifierResultAnyAddress(sender, verifier) ==
  IF OnlyOwner(sender) # OK THEN OnlyOwner(sender)
  ELSE IF verifiers[verifier] THEN "Already a verifier"
  ELSE OK

\* addVerifier without its require "Already a verifier"
AddVerifierResultIdempotent(sender, verifier) ==
  IF OnlyOwner(sender) # OK THEN OnlyOwner(sender)
  ELSE IF verifier = ZeroAddress THEN "Invalid verifier address"
  ELSE OK

\* revert reason of addVerifier: onlyOwner, then the two requires
AddVerifierResult(sender, verifier) ==
  IF OnlyOwner(sender) # OK THEN OnlyOwner(sender)
  ELSE IF verifier = ZeroAddress THEN "Invalid verifier address"
  ELSE IF verifiers[verifier] THEN "Already a verifier"
  ELSE OK

addVerifier(sender, verifier) ==
  LET res == AddVerifierResult(sender, verifier)
  IN IF res # OK THEN Revert("addVerifier", sender, res)
     ELSE /\ verifiers' = [verifiers EXCEPT ![verifier] = TRUE]
          /\ last' = Emit("addVerifier", sender, <<VerifierAdded(verifier)>>)
          /\ UNCHANGED <<_owner, _paused, _balances, _allowances, _totalSupply,
                         creditMetadata, totalMinted, totalRetired, now, mintLog, outside>>

RemoveVerifierResult(sender, verifier) ==
  IF OnlyOwner(sender) # OK THEN OnlyOwner(sender)
  ELSE IF ~verifiers[verifier] THEN "Not a verifier"
  ELSE OK

removeVerifier(sender, verifier) ==
  LET res == RemoveVerifierResult(sender, verifier)
  IN IF res # OK THEN Revert("removeVerifier", sender, res)
     ELSE /\ verifiers' = [verifiers EXCEPT ![verifier] = FALSE]
          /\ last' = Emit("removeVerifier", sender, <<VerifierRemoved(verifier)>>)
          /\ UNCHANGED <<_owner, _paused, _balances, _allowances, _totalSupply,
                         creditMetadata, totalMinted, totalRetired, now, mintLog, outside>>

\* pause() without onlyOwner
PauseResultAnyone(sender) ==
  IF _paused THEN "Pausable: paused" ELSE OK

\* pause() is onlyOwner, then Pausable._pause() is whenNotPaused
PauseResult(sender) ==
  IF OnlyOwner(sender) # OK THEN OnlyOwner(sender)
  ELSE IF _paused THEN "Pausable: paused"
  ELSE OK

pause(sender) ==
  LET res == PauseResult(sender)
  IN IF res # OK THEN Revert("pause", sender, res)
     ELSE /\ _paused' = TRUE
          /\ last' = Call("pause", sender, OK)
          /\ UNCHANGED <<_owner, _balances, _allowances, _totalSupply, creditMetadata,
                         totalMinted, totalRetired, verifiers, now, mintLog, outside>>

\* unpause() guarded by whenNotPaused in place of whenPaused
UnpauseResultWhenNotPaused(sender) ==
  IF OnlyOwner(sender) # OK THEN OnlyOwner(sender)
  ELSE IF _paused THEN "Pausable: paused"
  ELSE OK

\* unpause() is onlyOwner, then Pausable._unpause() is whenPaused
UnpauseResult(sender) ==
  IF OnlyOwner(sender) # OK THEN OnlyOwner(sender)
  ELSE IF ~_paused THEN "Pausable: not paused"
  ELSE OK

unpause(sender) ==
  LET res == UnpauseResult(sender)
  IN IF res # OK THEN Revert("unpause", sender, res)
     ELSE /\ _paused' = FALSE
          /\ last' = Call("unpause", sender, OK)
          /\ UNCHANGED <<_owner, _balances, _allowances, _totalSupply, creditMetadata,
                         totalMinted, totalRetired, verifiers, now, mintLog, outside>>

\* transferOwnership without onlyOwner
TransferOwnershipResultAnyone(sender, newOwner) ==
  IF newOwner = ZeroAddress THEN "Ownable: new owner is the zero address" ELSE OK

\* Ownable.transferOwnership(newOwner), inherited unchanged: onlyOwner, then
\* its require on newOwner
TransferOwnershipResult(sender, newOwner) ==
  IF OnlyOwner(sender) # OK THEN OnlyOwner(sender)
  ELSE IF newOwner = ZeroAddress THEN "Ownable: new owner is the zero address"
  ELSE OK

transferOwnership(sender, newOwner) ==
  LET res == TransferOwnershipResult(sender, newOwner)
  IN IF res # OK THEN Revert("transferOwnership", sender, res)
     ELSE /\ _owner' = newOwner
          /\ last' = Call("transferOwnership", sender, OK)
          /\ UNCHANGED <<_paused, _balances, _allowances, _totalSupply, creditMetadata,
                         totalMinted, totalRetired, verifiers, now, mintLog, outside>>

\* Ownable.renounceOwnership(), inherited unchanged: onlyOwner, then the
\* owner becomes address(0)
renounceOwnership(sender) ==
  LET res == OnlyOwner(sender)
  IN IF res # OK THEN Revert("renounceOwnership", sender, res)
     ELSE /\ _owner' = ZeroAddress
          /\ last' = Call("renounceOwnership", sender, OK)
          /\ UNCHANGED <<_paused, _balances, _allowances, _totalSupply, creditMetadata,
                         totalMinted, totalRetired, verifiers, now, mintLog, outside>>

\* the view's require with "<=" in place of "<"
GetMetadataResultInclusive(tokenId) ==
  IF ~(tokenId <= totalMinted) THEN "Token ID does not exist" ELSE OK

\* the view getCarbonCreditMetadata(tokenId): its revert reason, and its value
GetMetadataResult(tokenId) ==
  IF ~(tokenId < totalMinted) THEN "Token ID does not exist" ELSE OK

getCarbonCreditMetadata(tokenId) == Meta(tokenId)

\* a client calls the view; a view changes no storage
QueryMetadata(sender, tokenId) ==
  /\ last' = Call("getCarbonCreditMetadata", sender, GetMetadataResult(tokenId))
  /\ UNCHANGED <<ledger, now, mintLog, outside>>

\* the miner moves block.timestamp forward
NewBlock ==
  /\ now < MaxTime
  /\ now' = now + 1
  /\ UNCHANGED <<ledger, last, mintLog, outside>>

\* ------------------------------------- contracts/CarbonCredits.sol
\* outcome of a call of the standalone token
StandaloneCall(op, sender, result) == [op |-> op, sender |-> sender, result |-> result]

StandaloneRevert(op, sender, msg) ==
  /\ standalone' = [standalone EXCEPT !.last = StandaloneCall(op, sender, msg)]
  /\ UNCHANGED <<registry, firmware>>

\* mint without its onlyOwner
StandaloneMintResultAnyone(sender, to) ==
  IF to = ZeroAddress THEN "zero address" ELSE OK

\* revert reason of mint: onlyOwner, then the require on the recipient
StandaloneMintResult(sender, to) ==
  IF sender # standalone.owner THEN "only owner"
  ELSE IF to = ZeroAddress THEN "zero address"
  ELSE OK

\* "balances[to] += amount; totalSupply += amount" (0.8 checked arithmetic:
\* the supply is followed up to MaxSupply, far below 2^256)
mint(sender, to, amount) ==
  LET res == StandaloneMintResult(sender, to)
  IN /\ standalone.totalSupply + amount <= MaxSupply
     /\ IF res # OK THEN StandaloneRevert("mint", sender, res)
        ELSE /\ standalone' =
                  [standalone EXCEPT !.balances[to] = @ + amount,
                                     !.totalSupply = @ + amount,
                                     !.last = StandaloneCall("mint", sender, OK)]
             /\ UNCHANGED <<registry, firmware>>

\* the require of transfer and of burn
StandaloneBalanceCheck(from, amount) ==
  IF ~(standalone.balances[from] >= amount) THEN "insufficient" ELSE OK

\* a move that credits the balance read before the debit
StandaloneMoveStale(from, to, amount) ==
  [a \in Addr |-> IF a = to THEN standalone.balances[a] + amount
                  ELSE IF a = from THEN standalone.balances[a] - amount
                  ELSE standalone.balances[a]]

\* "balances[from] -= amount; balances[to] += amount", one after the other
StandaloneMove(from, to, amount) ==
  LET debited == [standalone.balances EXCEPT ![from] = @ - amount]
  IN [debited EXCEPT ![to] = @ + amount]

standaloneTransfer(sender, to, amount) ==
  LET res == StandaloneBalanceCheck(sender, amount)
  IN IF res # OK THEN StandaloneRevert("transfer", sender, res)
     ELSE /\ standalone' =
               [standalone EXCEPT !.balances = StandaloneMove(sender, to, amount),
                                  !.last = StandaloneCall("transfer", sender, OK)]
          /\ UNCHANGED <<registry, firmware>>

burn(sender, amount) ==
  LET res == StandaloneBalanceCheck(sender, amount)
  IN IF res # OK THEN StandaloneRevert("burn", sender, res)
     ELSE /\ standalone' =
               [standalone EXCEPT !.balances[sender] = @ - amount,
                                  !.totalSupply = @ - amount,
                                  !.last = StandaloneCall("burn", sender, OK)]
          /\ UNCHANGED <<registry, firmware>>

\* ------------------------------------------- IoT/firmware (ESP32)
\* the literals of the two wait loops of wifi_init
MaxWifiAttempts == 40
MaxMqttTries == 3

\* the build flags of include/config.h that the transports depend on
Flags == {"ENABLE_WIFI", "ENABLE_LORA", "ENABLE_GSM",
          "SEND_OVER_HTTP", "SEND_OVER_MQTT", "USE_DEEP_SLEEP"}
Enabled(flag) == flag \in esp32.flags

\* the firmware is compiled with one setting of the flags and booted
Build(flags) ==
  /\ esp32.pc = "build"
  /\ esp32' = [esp32 EXCEPT !.pc = "setup", !.flags = flags]
  /\ UNCHANGED <<registry, standalone, soil, wifi>>

\* setup(): the sensors begin, then "#if ENABLE_WIFI  if (wifi_init()) ...";
\* lora_init() and gsm_init() only print their result
setup ==
  /\ esp32.pc = "setup"
  /\ IF Enabled("ENABLE_WIFI")
     THEN /\ esp32' = [esp32 EXCEPT !.pc = "wifi_init"]
          /\ wifi' = [WifiIdle EXCEPT !.pc = "poll"]
     ELSE /\ esp32' = [esp32 EXCEPT !.pc = "loop"]
          /\ UNCHANGED wifi
  /\ UNCHANGED <<registry, standalone, soil>>

\* a wait loop that admits one more round
WifiKeepWaitingOneMore(connected) ==
  ~connected /\ wifi.attempts <= MaxWifiAttempts

\* "while (WiFi.status() != WL_CONNECTED && attempts < 40)"
WifiKeepWaiting(connected) ==
  ~connected /\ wifi.attempts < MaxWifiAttempts

StatusOf(connected) == IF connected THEN "WL_CONNECTED" ELSE "WL_DISCONNECTED"

\* one evaluation of the loop condition of line 54; the body is
\* "delay(500); attempts++"
WifiPoll(connected) ==
  /\ wifi.pc = "poll"
  /\ wifi' = IF WifiKeepWaiting(connected)
             THEN [wifi EXCEPT !.polls = @ + 1, !.status = StatusOf(connected),
                               !.attempts = @ + 1]
             ELSE [wifi EXCEPT !.polls = @ + 1, !.status = StatusOf(connected),
                               !.pc = "check"]
  /\ UNCHANGED <<registry, standalone, soil, esp32>>

\* "if (WiFi.status() != WL_CONNECTED) return false;" and, without
\* SEND_OVER_MQTT, "return true"
WifiCheck(connected) ==
  /\ wifi.pc = "check"
  /\ wifi' = IF ~connected
             THEN [wifi EXCEPT !.polls = @ + 1, !.status = StatusOf(connected),
                               !.pc = "returned", !.ret = FALSE]
             ELSE IF Enabled("SEND_OVER_MQTT")
             THEN [wifi EXCEPT !.polls = @ + 1, !.status = StatusOf(connected),
                               !.pc = "mqtt"]
             ELSE [wifi EXCEPT !.polls = @ + 1, !.status = StatusOf(connected),
                               !.pc = "returned", !.ret = TRUE]
  /\ UNCHANGED <<registry, standalone, soil, esp32>>

\* one evaluation of "while(!mqttClient.connected() && tries<3)" and, when it
\* admits the body, "if(mqttClient.connect(DEVICE_ID)) break; delay(1000); tries++"
MqttConnect(connected, accepted) ==
  /\ wifi.pc = "mqtt"
  /\ wifi' = IF ~connected /\ wifi.tries < MaxMqttTries
             THEN IF accepted
                  THEN [wifi EXCEPT !.mqtt = connected, !.connects = @ + 1,
                                    !.pc = "mqttcheck"]
                  ELSE [wifi EXCEPT !.mqtt = connected, !.connects = @ + 1,
                                    !.tries = @ + 1]
             ELSE [wifi EXCEPT !.mqtt = connected, !.pc = "mqttcheck"]
  /\ UNCHANGED <<registry, standalone, soil, esp32>>

\* "if(!mqttClient.connected()) return false;  return true;"
MqttCheck(connected) ==
  /\ wifi.pc = "mqttcheck"
  /\ wifi' = [wifi EXCEPT !.mqtt = connected, !.pc = "returned", !.ret = connected]
  /\ UNCHANGED <<registry, standalone, soil, esp32>>

\* wifi_init() has returned to setup(), which prints the result and ends;
\* loop() is next
WifiReturn ==
  /\ esp32.pc = "wifi_init"
  /\ wifi.pc = "returned"
  /\ esp32' = [esp32 EXCEPT !.pc = "loop"]
  /\ wifi' = WifiIdle
  /\ UNCHANGED <<registry, standalone, soil>>

\* loop() up to "bool sent = false;"
loop ==
  /\ esp32.pc = "loop"
  /\ esp32' = [esp32 EXCEPT !.pc = "http", !.sent = FALSE, !.attempted = <<>>,
                            !.report = ""]
  /\ UNCHANGED <<registry, standalone, soil, wifi>>

\* what a send function did: whether its link check passed, whether it
\* handed the payload to the network, and the value it returned
Sent(transport, linked, ok) ==
  [transport |-> transport, linked |-> linked, transmitted |-> linked,
   ok |-> linked /\ ok]

\* wifi_send_http: "if (WiFi.status() != WL_CONNECTED) return false;", then
\* the POST and "return code >= 200 && code < 300"
wifi_send_http(connected, code2xx) == Sent("wifi_send_http", connected, code2xx)

\* wifi_send_mqtt: false unless WiFi.isConnected() and
\* mqttClient.connected(), then the value of publish
wifi_send_mqtt(connected, published) == Sent("wifi_send_mqtt", connected, published)

\* lora_send: the packet is always written; "return r == 1"
lora_send(r1) == Sent("lora_send", TRUE, r1)

\* gsm_send_http: "if (!modem.isGprsConnected()) return false;", then the
\* request and the check of the status line
gsm_send_http(connected, status2xx) == Sent("gsm_send_http", connected, status2xx)

\* a stage that does not look at "sent"
StageRunsAnyway(flags) == flags \subseteq esp32.flags

\* "#if <flags>  if (!sent) ..." : the stage is compiled in and nothing has
\* been sent yet
StageRuns(flags) == flags \subseteq esp32.flags /\ ~esp32.sent

\* one stage of the fallback chain: "if (!sent) sent = <send>(payload);"
Stage(pc, next, flags, result) ==
  /\ esp32.pc = pc
  /\ esp32' = IF StageRuns(flags)
              THEN [esp32 EXCEPT !.pc = next, !.sent = result.ok,
                                 !.attempted = Append(@, result)]
              ELSE [esp32 EXCEPT !.pc = next]
  /\ UNCHANGED <<registry, standalone, soil, wifi>>

TryWifiHttp ==
  \E connected \in BOOLEAN, code2xx \in BOOLEAN :
    Stage("http", "mqtt", {"ENABLE_WIFI", "SEND_OVER_HTTP"},
          wifi_send_http(connected, code2xx))

TryWifiMqtt ==
  \E connected \in BOOLEAN, published \in BOOLEAN :
    Stage("mqtt", "lora", {"ENABLE_WIFI", "SEND_OVER_MQTT"},
          wifi_send_mqtt(connected, published))

TryLora ==
  \E r1 \in BOOLEAN : Stage("lora", "gsm", {"ENABLE_LORA"}, lora_send(r1))

TryGsm ==
  \E connected \in BOOLEAN, status2xx \in BOOLEAN :
    Stage("gsm", "report", {"ENABLE_GSM"}, gsm_send_http(connected, status2xx))

\* "Serial.println(sent ? ... : ...)", then goToSleep(): deep sleep ends in a
\* reset and setup() runs again; without it loop() is entered again
Report ==
  /\ esp32.pc = "report"
  /\ esp32' = [esp32 EXCEPT
                 !.report = IF esp32.sent THEN "[TX] Success" ELSE "[TX] Failed (no link)",
                 !.pc = IF Enabled("USE_DEEP_SLEEP") THEN "setup" ELSE "loop"]
  /\ UNCHANGED <<registry, standalone, soil, wifi>>

\* ------------------------------------------------- SoilSensor
\* C integer division: the quotient is truncated toward zero
TruncDiv(a, b) ==
  LET q == (IF a < 0 THEN -a ELSE a) \div (IF b < 0 THEN -b ELSE b)
  IN IF (a < 0) = (b < 0) THEN q ELSE -q

\* Arduino map(): "(x - in_min) * (out_max - out_min) / (in_max - in_min) + out_min"
\* in long; with 16-bit inputs and outputs up to 100 the product stays far
\* below 2^31
map(x, in_min, in_max, out_min, out_max) ==
  TruncDiv((x - in_min) * (out_max - out_min), in_max - in_min) + out_min

\* conversion of the long returned by map() to the uint8_t readMoisture returns
ToUint8(x) == ((x % 256) + 256) % 256

\* the clamp to wet alone
ClampWetOnly(raw) == IF raw < soil._wetRaw THEN soil._wetRaw ELSE raw

\* "if (raw > _dryRaw) raw = _dryRaw;  if (raw < _wetRaw) raw = _wetRaw;"
Clamp(raw) ==
  LET r1 == IF raw > soil._dryRaw THEN soil._dryRaw ELSE raw
  IN IF r1 < soil._wetRaw THEN soil._wetRaw ELSE r1

\* the value readMoisture returns for a raw reading when _dryRaw # _wetRaw
MoistureOf(raw) == ToUint8(map(Clamp(raw), soil._dryRaw, soil._wetRaw, 0, 100))

\* the constructor
SoilSensor(dryRaw, wetRaw) ==
  /\ soil.pc = "none"
  /\ soil' = [soil EXCEPT !.pc = "constructed", !._dryRaw = dryRaw, !._wetRaw = wetRaw]
  /\ UNCHANGED <<registry, standalone, esp32, wifi>>

\* readMoisture() with analogRead returning raw; with _dryRaw = _wetRaw map()
\* divides by zero: the cores that test for it return -1, the others end in
\* the divide-by-zero exception of the processor and a restart
readMoisture(raw) ==
  /\ soil.pc # "none"
  /\ IF soil._dryRaw = soil._wetRaw
     THEN \/ soil' = [soil EXCEPT !.pc = "read", !.raw = raw, !.moisture = ToUint8(-1)]
          \/ soil' = [soil EXCEPT !.pc = "fault", !.raw = raw]
     ELSE soil' = [soil EXCEPT !.pc = "read", !.raw = raw, !.moisture = MoistureOf(raw)]
  /\ UNCHANGED <<registry, standalone, esp32, wifi>>

TokenIds == 0..MaxMinted

\* ------------------------------------------------- the calls of one step
\* the registry functions, their arguments drawn from the given sets (Q: the
\* callers of the view)
RegistryCalls(S, To, Recs, Rsn, Q) ==
  \/ \E s \in S, to \in To, amount \in Amounts, rec \in Recs :
        /\ totalMinted + amount <= MaxMinted
        /\ mintCarbonCredits(s, to, amount, rec)
  \/ \E s \in S, amount \in Amounts, reason \in Rsn :
        retireCarbonCredits(s, amount, reason)
  \/ \E s \in Q, id \in TokenIds : QueryMetadata(s, id)

TransferCalls(S, To) ==
  \E s \in S, to \in To, amount \in Amounts : transfer(s, to, amount)

AllowanceCalls(S, Sp, To) ==
  \/ \E s \in S, spender \in Sp \cup {ZeroAddress}, amount \in Amounts :
        approve(s, spender, amount)
  \/ \E s \in Sp, from \in To, to \in To, amount \in Amounts :
        transferFrom(s, from, to, amount)

RoleCalls(S, Vs) ==
  \/ \E s \in S, v \in Vs : addVerifier(s, v)
  \/ \E s \in S, v \in Vs : removeVerifier(s, v)

PauseCalls(S) ==
  \/ \E s \in S : pause(s)
  \/ \E s \in S : unpause(s)

OwnershipCalls(S, To) ==
  \/ \E s \in S, newOwner \in To : transferOwnership(s, newOwner)
  \/ \E s \in S : renounceOwnership(s)

\* the accounts that act in the unscripted specifications
Parties == {Deployer, "A"}
Recipients == Parties \cup {ZeroAddress}
Reasons == {"", "offset"}

\* The ledger under the registry, transfer, role and pause calls of the two
\* parties, block time fixed. The second project is minted in the scripted
\* scenario only.
PartyRecords == {r \in MintRecords : r.projectId # "P2"}

Next ==
  \/ RegistryCalls(Parties, Recipients, PartyRecords, Reasons, {"A"})
  \/ TransferCalls(Parties, Recipients)
  \/ RoleCalls(Parties, {ZeroAddress, "A"})
  \/ PauseCalls(Parties)

Spec == Init /\ [][Next]_vars

\* The same with the ownership calls the contract inherits from Ownable.
NextOwner ==
  \/ RegistryCalls(Parties, Recipients, PartyRecords, Reasons, {"A"})
  \/ TransferCalls(Parties, Recipients)
  \/ RoleCalls(Parties, {ZeroAddress, "A"})
  \/ PauseCalls(Parties)
  \/ OwnershipCalls(Parties, Recipients)

SpecOwner == Init /\ [][NextOwner]_vars

\* The registry with block time moving: the owner and one holder mint, retire
\* and look up while the miner advances the clock.
OneRecord == {r \in MintRecords : r.projectId = "P1"}

NextTime ==
  \/ RegistryCalls(Parties, Parties, OneRecord, Reasons, {"A"})
  \/ NewBlock

SpecTime == Init /\ [][NextTime]_vars

\* The token side: every call including approve and transferFrom, one
\* well-formed project record, block time fixed.
NextToken ==
  \/ RegistryCalls(Parties, Recipients, OneRecord, Reasons, {"A"})
  \/ TransferCalls(Parties, Recipients)
  \/ AllowanceCalls({Deployer}, {"A"}, Recipients)
  \/ RoleCalls(Parties, {ZeroAddress, "A"})
  \/ PauseCalls(Parties)

SpecToken == Init /\ [][NextToken]_vars

\* The standalone token under mint, transfer and burn calls of every account,
\* to every address.
NextStandalone ==
  \/ \E s \in Senders, to \in Addr, amount \in Amounts : mint(s, to, amount)
  \/ \E s \in Senders, to \in Addr, amount \in Amounts : standaloneTransfer(s, to, amount)
  \/ \E s \in Senders, amount \in Amounts : burn(s, amount)

SpecStandalone == Init /\ [][NextStandalone]_vars

\* The ESP32 firmware: one build, then setup() and loop() for ever; every
\* read of a link status and every send may come out either way.
NextFirmware ==
  \/ \E flags \in SUBSET Flags : Build(flags)
  \/ setup
  \/ \E connected \in BOOLEAN : WifiPoll(connected)
  \/ \E connected \in BOOLEAN : WifiCheck(connected)
  \/ \E connected \in BOOLEAN, accepted \in BOOLEAN : MqttConnect(connected, accepted)
  \/ \E connected \in BOOLEAN : MqttCheck(connected)
  \/ WifiReturn
  \/ loop
  \/ TryWifiHttp
  \/ TryWifiMqtt
  \/ TryLora
  \/ TryGsm
  \/ Report

SpecFirmware == Init /\ [][NextFirmware]_vars

\* the processor never stops between two statements
SpecFirmwareFair == SpecFirmware /\ WF_vars(NextFirmware)

\* A soil sensor with any calibration, read at any raw value.
RawValues == 0..MaxRaw

NextSoil ==
  \/ \E dryRaw \in RawValues, wetRaw \in RawValues : SoilSensor(dryRaw, wetRaw)
  \/ \E raw \in RawValues : readMoisture(raw)

SpecSoil == Init /\ [][NextSoil]_vars

\* ------------------------------------------------------ the two-holder run
\* mint 100 to A for P1, A retires 40 as "offset", mint 50 to B for P2,
\* B retires 10; the owner issues the mints.  A call of the run is made when
\* the counters say the calls before it went through.  Role, pause and view
\* calls and block time may come between the calls of the run.
ProjectP1 == CHOOSE r \in MintRecords : r.projectId = "P1" /\ r.verificationId = "V1"
ProjectP2 == CHOOSE r \in MintRecords : r.projectId = "P2" /\ r.verificationId = "V2"
ScenarioIds == {0, 1, 100, 150}

Scenario ==
  \/ totalMinted = 0 /\ mintCarbonCredits(Deployer, "A", 100, ProjectP1)
  \/ totalMinted = 100 /\ totalRetired = 0 /\ retireCarbonCredits("A", 40, "offset")
  \/ totalMinted = 100 /\ totalRetired = 40 /\ mintCarbonCredits(Deployer, "B", 50, ProjectP2)
  \/ totalMinted = 150 /\ totalRetired = 40 /\ retireCarbonCredits("B", 10, "csr")

NextScenario ==
  \/ Scenario
  \/ \E s \in {"A", "B"}, id \in ScenarioIds : QueryMetadata(s, id)
  \/ RoleCalls({Deployer}, {"A"})
  \/ PauseCalls({Deployer})
  \/ NewBlock

SpecScenario == Init /\ [][NextScenario]_vars

\* ================================================================ claims
Authorized(a) == verifiers[a] \/ a = owner
ValidRecords ==
  {r \in MintRecords : Len(r.projectId) > 0 /\ Len(r.verificationId) > 0}
Did(op) == last.op = op /\ last.result = OK
\* the step is a call of op (a call leaves block.timestamp, NewBlock moves it)
CallStep(op) == last'.op = op /\ now' = now

\* C1 (conservation): in every state reached by any sequence of mint,
\* retire, transfer, transferFrom, approve, role and pause calls, the sum of
\* all balances equals totalMinted - totalRetired (and the ERC20 supply).
C1_Conservation ==
  /\ Sum(_balances, Addr) = totalMinted - totalRetired
  /\ _totalSupply = totalMinted - totalRetired

\* credits were minted, some retired, and an allowance transfer just moved
\* the rest between two holders
C1_Witness ==
  /\ Did("transferFrom")
  /\ totalRetired > 0
  /\ _balances[Deployer] > 0
  /\ _balances["A"] > 0

\* C2 (authorization of mint): on a ledger that is not halted, a mint with a
\* non-null recipient, a positive amount and non-empty project and
\* verification ids succeeds if and only if the caller is the owner or in the
\* verifier set; by any other caller it is rejected with "Only verifier or
\* owner", and a mint step so rejected changes nothing of the ledger, while a
\* mint step that succeeds was made by the owner or a verifier.
C2_MintDecision ==
  ~_paused =>
    \A s \in Senders, to \in Senders, amount \in 1..MaxAmount, rec \in ValidRecords :
      /\ MintResult(s, to, amount, rec) = OK <=> Authorized(s)
      /\ ~Authorized(s) => MintResult(s, to, amount, rec) = "Only verifier or owner"

C2_MintStep ==
  /\ (CallStep("mintCarbonCredits") /\ last'.result = "Only verifier or owner")
        => (~Authorized(last'.sender) /\ UNCHANGED <<ledger, mintLog>>)
  /\ (CallStep("mintCarbonCredits") /\ last'.result = OK)
        => (Authorized(last'.sender) /\ ~_paused /\ totalMinted' > totalMinted)

PauseLeavesOpen ==
  /\ \A v \in Senders :
        /\ AddVerifierResult(owner, v) = OK <=> ~verifiers[v]
        /\ RemoveVerifierResult(owner, v) = OK <=> verifiers[v]
  /\ \A id \in TokenIds :
        Len(Meta(id).projectId) > 0 => GetMetadataResult(id) = OK

PauseStopsRetireAndTransfer ==
  /\ \A s \in Senders, amount \in Amounts, reason \in Reasons :
        RetireResult(s, amount, reason) = "Pausable: paused"
  /\ \A s \in Senders, to \in Addr, amount \in Amounts :
        TransferResult(s, to, amount) = "Pausable: paused"

C4_CheckOrderStep ==
  /\ (CallStep("mintCarbonCredits") /\ ~Authorized(last'.sender))
        => last'.result = "Only verifier or owner"
  /\ (CallStep("mintCarbonCredits") /\ Authorized(last'.sender) /\ _paused)
        => last'.result = "Pausable: paused"
  /\ ((CallStep("retireCarbonCredits") \/ CallStep("transfer")) /\ _paused)
        => last'.result = "Pausable: paused"

IsBatch(i) == Len(Meta(i).projectId) > 0
\* creditMetadata[i] after the step
MetaNext(i) ==
  IF i \in DOMAIN creditMetadata' THEN creditMetadata'[i] ELSE EmptyMetadata
MintStep == CallStep("mintCarbonCredits") /\ last'.result = OK
RetireStep == CallStep("retireCarbonCredits") /\ last'.result = OK
\* the number of successful mints so far
BatchCount == Len(mintLog)
SameProject(m, rec) ==
  /\ m.projectId = rec.projectId
  /\ m.verificationId = rec.verificationId
  /\ m.methodology = rec.methodology
  /\ m.location = rec.location
  /\ m.vintageYear = rec.vintageYear

\* C5 (batch ids are mint sequence numbers): the k-th successful mint,
\* counting from 0, creates its batch record at id k whatever the amounts
\* minted, and a batch record once created is never deleted or replaced by
\* another mint.
C5_BatchIdIsMintSequenceNumber ==
  [][/\ MintStep =>
          /\ MetaNext(BatchCount) = NewMetadata(mintLog'[BatchCount + 1])
          /\ \A j \in TokenIds \ {BatchCount} : MetaNext(j) = Meta(j)
     /\ \A j \in TokenIds :
          IsBatch(j) => SameProject(MetaNext(j), Meta(j))]_vars

\* C6 (retirement targeting): every successful retire marks exactly one batch
\* record as retired, the lowest-indexed batch record whose retired flag is
\* false at the time of the call, stamping a non-empty reason and the time of
\* the call on it, and changes no other record.
C6_RetireMarksLowestUnretiredBatch ==
  [][RetireStep =>
       LET U == {i \in TokenIds : IsBatch(i) /\ ~Meta(i).isRetired}
       IN /\ U # {}
          /\ LET m == CHOOSE i \in U : \A j \in U : i <= j
             IN /\ \E reason \in Reasons \ {""} :
                     MetaNext(m) = [Meta(m) EXCEPT !.isRetired = TRUE,
                                                !.retirementReason = reason,
                                                !.retirementDate = now]
                /\ \A j \in TokenIds \ {m} : MetaNext(j) = Meta(j)]_vars

\* C7 (two-holder scenario): after mint 100 to A for P1, retire 40 by A with
\* reason "offset", mint 50 to B for P2 and retire 10 by B, balance(A) = 60,
\* balance(B) = 40, totalMinted = 150, totalRetired = 50, batch 0 is P1 and is
\* retired with reason "offset", and batch 1 is the record of the second mint
\* (P2) and is the record B's retirement marked.
C7_TwoHolderScenario ==
  (totalMinted = 150 /\ totalRetired = 50) =>
    /\ balanceOf("A") = 60
    /\ balanceOf("B") = 40
    /\ Meta(0).projectId = "P1"
    /\ Meta(0).isRetired
    /\ Meta(0).retirementReason = "offset"
    /\ Meta(1).projectId = "P2"
    /\ Meta(1).isRetired
    /\ Meta(1).retirementReason = "csr"

\* C8 (lookup by id): getCarbonCreditMetadata(id) fails with "Token ID does
\* not exist" if and only if id is at least the number of successful mints,
\* and for a smaller id it returns the record that mint created.
C8_NotFoundIffBeyondBatchCount ==
  \A id \in TokenIds :
    /\ GetMetadataResult(id) = "Token ID does not exist" <=> id >= BatchCount
    /\ id < BatchCount => IsBatch(id)

\* C9 (metadata round trip): for every successful mint, the first or a later
\* one, the lookup at that mint's batch id returns the projectId,
\* verificationId, methodology, location and vintageYear passed to the mint,
\* not retired unless a retirement has stamped the record.
C9_MetadataRoundTrip ==
  \A k \in 1..BatchCount :
    LET m == getCarbonCreditMetadata(k - 1)
    IN /\ GetMetadataResult(k - 1) = OK
       /\ SameProject(m, mintLog[k])
       /\ m.isRetired => m.retirementDate > 0

\* C10 (batch record immutability): once a batch record is created its
\* projectId, verificationId, verificationTimestamp, methodology, location and
\* vintageYear never change; the three retirement fields of a slot change
\* only together, in a successful retire, from (false, empty, 0) to (true,
\* the call's non-empty reason, the time of the call); and a slot that is
\* retired keeps its flag, reason and time in every later step.
C10_RecordStep ==
  creditMetadata' # creditMetadata =>
  \A i \in TokenIds :
    LET m == Meta(i)
        n == MetaNext(i)
        retirement(x) == <<x.isRetired, x.retirementReason, x.retirementDate>>
    IN /\ IsBatch(i) =>
            /\ SameProject(n, m)
            /\ n.verificationDate = m.verificationDate
       /\ m.isRetired => retirement(n) = retirement(m)
       /\ retirement(n) # retirement(m) =>
            /\ RetireStep
            /\ retirement(m) = <<FALSE, "", 0>>
            /\ n.isRetired
            /\ Len(n.retirementReason) > 0
            /\ n.retirementDate = now

C10_RecordImmutability == [][C10_RecordStep]_vars

\* a batch record retired at an earlier block time is still there, as it
\* was, after a later mint and a later retirement
C10_Witness ==
  /\ Did("retireCarbonCredits")
  /\ IsBatch(0)
  /\ Meta(0).isRetired
  /\ Meta(0).retirementDate < now
  /\ BatchCount >= 2
  /\ Meta(1).isRetired

\* ------------------------------------------------------------ the counters
\* C11 (counter monotonicity): in every step totalMinted and totalRetired do
\* not decrease, totalMinted changes only in a successful mint and
\* totalRetired only in a successful retire, and in every state
\* 0 <= totalRetired <= totalMinted.
C11_CounterStep ==
  /\ totalMinted' >= totalMinted
  /\ totalRetired' >= totalRetired
  /\ totalMinted' # totalMinted => MintStep
  /\ totalRetired' # totalRetired => RetireStep

C11_CounterMonotonicity ==
  [](0 <= totalRetired /\ totalRetired <= totalMinted) /\ [][C11_CounterStep]_vars

\* two retirements after two mints have retired everything minted
C11_Witness ==
  /\ Did("retireCarbonCredits")
  /\ BatchCount >= 2
  /\ totalRetired = totalMinted
  /\ totalRetired >= 2

\* ------------------------------------------------------------ call effects
\* the written slots of creditMetadata other than k keep their content
OtherSlotsKept(k) ==
  /\ DOMAIN creditMetadata \ {k} = DOMAIN creditMetadata' \ {k}
  /\ \A j \in DOMAIN creditMetadata \ {k} : creditMetadata'[j] = creditMetadata[j]

\* C12 (mint effect): a successful mint raises totalMinted by a positive
\* amount and the balance of one non-null account by the same amount, stores
\* exactly one record, in a slot not written before, holding the minted
\* project record and the time of the call, not retired and with empty
\* retirement fields, and leaves every other balance, totalRetired, every
\* existing record, the verifier set, the owner and the halt flag unchanged.
C12_MintStep ==
  MintStep =>
    LET amount == totalMinted' - totalMinted
    IN /\ amount > 0
       /\ \E to \in Senders : _balances' = [_balances EXCEPT ![to] = @ + amount]
       /\ \E k \in DOMAIN creditMetadata' \ DOMAIN creditMetadata :
             /\ OtherSlotsKept(k)
             /\ creditMetadata'[k] = NewMetadata(mintLog'[Len(mintLog')])
             /\ ~creditMetadata'[k].isRetired
             /\ creditMetadata'[k].retirementReason = ""
             /\ creditMetadata'[k].retirementDate = 0
       /\ UNCHANGED <<totalRetired, verifiers, _owner, _paused, _allowances>>

C12_MintEffect == [][C12_MintStep]_vars

\* a second batch has just been minted to a holder other than the first
C12_Witness ==
  /\ Did("mintCarbonCredits")
  /\ BatchCount = 2
  /\ balanceOf(Deployer) > 0
  /\ balanceOf("A") > 0
  /\ totalRetired > 0

\* the conditions mintCarbonCredits puts on its arguments, each with the error
\* that reports it
MintArgErrors(to, amount, rec) ==
  (IF to = ZeroAddress THEN {"Invalid recipient address"} ELSE {})
  \cup (IF amount > 0 THEN {} ELSE {"Amount must be greater than 0"})
  \cup (IF Len(rec.projectId) > 0 THEN {} ELSE {"Project ID cannot be empty"})
  \cup (IF Len(rec.verificationId) > 0 THEN {} ELSE {"Verification ID cannot be empty"})

\* C13 (mint argument validation): for the owner or a verifier on a ledger
\* that is not halted, a mint succeeds if and only if the recipient is
\* non-null, the amount positive and projectId and verificationId non-empty;
\* a rejected mint reports the error of one of the conditions it violates,
\* the four errors being distinct; and the outcome does not depend on
\* methodology, location or vintageYear.
C13_MintArgumentValidation ==
  ~_paused =>
    \A s \in {a \in Senders : Authorized(a)}, to \in Addr, amount \in Amounts,
       rec \in MintRecords :
      LET res == MintResult(s, to, amount, rec)
          errs == MintArgErrors(to, amount, rec)
      IN /\ res = OK <=> errs = {}
         /\ res # OK => res \in errs
         /\ (to = ZeroAddress /\ Cardinality(errs) = 1) => res = "Invalid recipient address"
         /\ (amount = 0 /\ Cardinality(errs) = 1) => res = "Amount must be greater than 0"
         /\ (rec.projectId = "" /\ Cardinality(errs) = 1) => res = "Project ID cannot be empty"
         /\ (rec.verificationId = "" /\ Cardinality(errs) = 1)
               => res = "Verification ID cannot be empty"
         /\ res = MintResult(s, to, amount,
                             [rec EXCEPT !.methodology = "", !.location = "",
                                         !.vintageYear = 0])

\* a verifier that is not the owner has just been refused a mint without a
\* project id, on a ledger that is not halted
C13_Witness ==
  /\ ~_paused
  /\ last.op = "mintCarbonCredits"
  /\ last.result = "Project ID cannot be empty"
  /\ last.sender # owner
  /\ verifiers[last.sender]

\* C14 (retire effect): a successful retire by caller c raises totalRetired
\* by a positive amount and lowers the balance of c by the same amount,
\* raises no balance, and leaves every other balance, totalMinted, the
\* verifier set, the owner and the halt flag unchanged; and it needs no role:
\* on a ledger that is not halted any account retires any positive amount up
\* to its balance.
C14_RetireStep ==
  RetireStep =>
    LET amount == totalRetired' - totalRetired
        c == last'.sender
    IN /\ amount > 0
       /\ balanceOf(c) >= amount
       /\ _balances' = [_balances EXCEPT ![c] = @ - amount]
       /\ UNCHANGED <<totalMinted, verifiers, _owner, _paused, _allowances>>

C14_NoRoleNeeded ==
  ~_paused =>
    \A c \in Senders, amount \in 1..MaxAmount :
      balanceOf(c) >= amount => RetireResult(c, amount, "offset") = OK

C14_RetireEffect == [](C14_NoRoleNeeded) /\ [][C14_RetireStep]_vars

\* a holder that is neither owner nor verifier has just retired part of its
\* credits while the owner holds credits too
C14_Witness ==
  /\ Did("retireCarbonCredits")
  /\ ~Authorized(last.sender)
  /\ balanceOf(last.sender) > 0
  /\ balanceOf(owner) > 0
  /\ totalRetired > 0

\* C15 (retire enabling condition): on a ledger that is not halted a retire
\* by caller c succeeds if and only if amount > 0, balance(c) >= amount and
\* the reason is non-empty; a zero amount is rejected with "Amount must be
\* greater than 0", an amount above the balance with "Insufficient balance",
\* an empty reason (amount in range) with "Retirement reason cannot be
\* empty"; and a rejected retire step marks no record retired.
C15_RetireDecision ==
  ~_paused =>
    \A c \in Senders, amount \in Amounts, reason \in Reasons :
      LET res == RetireResult(c, amount, reason)
      IN /\ res = OK <=> (amount > 0 /\ balanceOf(c) >= amount /\ Len(reason) > 0)
         /\ amount = 0 => res = "Amount must be greater than 0"
         /\ amount > balanceOf(c) => res = "Insufficient balance"
         /\ (amount > 0 /\ balanceOf(c) >= amount /\ reason = "")
               => res = "Retirement reason cannot be empty"

C15_RejectedRetireStep ==
  (CallStep("retireCarbonCredits") /\ last'.result # OK) =>
    /\ creditMetadata' = creditMetadata
    /\ UNCHANGED <<_balances, totalRetired>>

C15_RetireEnabling == [](C15_RetireDecision) /\ [][C15_RejectedRetireStep]_vars

\* a holder with an unretired batch in the registry has just been refused a
\* retirement without a reason
C15_Witness ==
  /\ ~_paused
  /\ last.op = "retireCarbonCredits"
  /\ last.result = "Retirement reason cannot be empty"
  /\ balanceOf(last.sender) > 0
  /\ IsBatch(0)
  /\ ~Meta(0).isRetired

\* --------------------------------------------------------------- transfer
\* a successful transfer moves an amount the sender holds to a non-null
\* account (a transfer to oneself leaves the balances as they are) and changes
\* no counter, no record, no role and not the halt flag
C16_TransferStep ==
  (CallStep("transfer") /\ last'.result = OK) =>
    LET s == last'.sender
    IN /\ \E to \in Senders, amount \in Amounts :
             /\ balanceOf(s) >= amount
             /\ _balances' =
                  IF to = s THEN _balances
                  ELSE [a \in Addr |-> IF a = s THEN _balances[a] - amount
                                       ELSE IF a = to THEN _balances[a] + amount
                                       ELSE _balances[a]]
       /\ UNCHANGED <<totalMinted, totalRetired, creditMetadata, verifiers, _paused,
                      _owner, _totalSupply>>

\* C16 as stated (transfer): a successful transfer by s lowers balance(s) and
\* raises balance(to) by the amount and changes no counter, record, role or
\* the halt flag; and every transfer with balance(s) < amount fails with the
\* insufficient-balance error.
C16_TransferAsStated ==
  /\ [](\A s \in Senders, to \in Addr, amount \in Amounts :
          balanceOf(s) < amount
            => TransferResult(s, to, amount) = "ERC20: transfer amount exceeds balance")
  /\ [][C16_TransferStep]_vars

\* C16 as amended: the effect as stated; every transfer with
\* balance(s) < amount fails, with the insufficient-balance error when the
\* ledger is not halted and the recipient is non-null, with "Pausable: paused"
\* when the ledger is halted, and with "ERC20: transfer to the zero address"
\* when it is not halted and the recipient is the null address.
C16_TransferDecision ==
  \A s \in Senders, to \in Addr, amount \in Amounts :
    balanceOf(s) < amount =>
      TransferResult(s, to, amount) =
        IF _paused THEN "Pausable: paused"
        ELSE IF to = ZeroAddress THEN "ERC20: transfer to the zero address"
        ELSE "ERC20: transfer amount exceeds balance"

C16_Transfer == [](C16_TransferDecision) /\ [][C16_TransferStep]_vars

\* after a retirement, a transfer has just left credits with both parties
C16_Witness ==
  /\ Did("transfer")
  /\ totalRetired > 0
  /\ balanceOf(Deployer) > 0
  /\ balanceOf("A") > 0

\* ---------------------------------------------------------- role management
RoleStep == CallStep("addVerifier") \/ CallStep("removeVerifier")

\* what a role call decides: any caller but the owner is turned away, the
\* owner adds a non-null account that is not a verifier and removes one that is
C17_RoleDecision ==
  \A v \in Addr :
    /\ \A s \in Senders \ {owner} :
          /\ AddVerifierResult(s, v) = "Ownable: caller is not the owner"
          /\ RemoveVerifierResult(s, v) = "Ownable: caller is not the owner"
    /\ (v # ZeroAddress /\ ~verifiers[v]) => AddVerifierResult(owner, v) = OK
    /\ verifiers[v] => RemoveVerifierResult(owner, v) = OK

C17_RoleCallStep ==
  /\ (RoleStep /\ last'.result # OK) => UNCHANGED <<ledger, mintLog>>
  /\ (RoleStep /\ last'.sender # owner) => last'.result = "Ownable: caller is not the owner"
  /\ (RoleStep /\ last'.result = OK) =>
        /\ last'.sender = owner
        /\ \E v \in Senders :
              /\ verifiers[v] = (last'.op = "removeVerifier")
              /\ verifiers' = [verifiers EXCEPT ![v] = (last'.op = "addVerifier")]
        /\ UNCHANGED <<_owner, _paused, _balances, _allowances, _totalSupply,
                       creditMetadata, totalMinted, totalRetired, mintLog>>

\* C17 (role management is owner-only): addVerifier and removeVerifier by any
\* caller other than the owner, a current verifier included, are rejected
\* with "Ownable: caller is not the owner" and leave the verifier set
\* unchanged; by the owner with a valid target they succeed, set that
\* account's flag to true / false and change nothing else.
C17_OwnerOnlyRoleManagement == [](C17_RoleDecision) /\ [][C17_RoleCallStep]_vars

\* a verifier holding credits has just been refused a role call
C17_Witness ==
  /\ last.op \in {"addVerifier", "removeVerifier"}
  /\ last.sender # owner
  /\ verifiers[last.sender]
  /\ last.result = "Ownable: caller is not the owner"
  /\ totalMinted > 0

\* the owner's addVerifier on a verifier and removeVerifier on a non-verifier
C18_RepeatDecision ==
  \A v \in Addr :
    /\ verifiers[v] => AddVerifierResult(owner, v) = "Already a verifier"
    /\ ~verifiers[v] => RemoveVerifierResult(owner, v) = "Not a verifier"

\* a role call that went through would fail if the owner made it again, and a
\* role call refused for the target's role changes nothing
C18_RepeatStep ==
  /\ (RoleStep /\ last'.result = OK) =>
        \A v \in Addr :
          verifiers'[v] # verifiers[v] =>
            IF last'.op = "addVerifier"
            THEN AddVerifierResult(owner, v)' = "Already a verifier"
            ELSE RemoveVerifierResult(owner, v)' = "Not a verifier"
  /\ (RoleStep /\ last'.result \in {"Already a verifier", "Not a verifier"}) =>
        /\ last'.sender = owner
        /\ UNCHANGED <<ledger, mintLog>>

\* C18 (role operations are not idempotent): the owner's addVerifier on an
\* account that is already a verifier fails with "Already a verifier" and
\* the owner's removeVerifier on an account that is not a verifier fails with
\* "Not a verifier", the verifier set unchanged in both cases; so after a
\* role call that succeeded the same call by the owner fails.
C18_RoleCallsNotIdempotent == [](C18_RepeatDecision) /\ [][C18_RepeatStep]_vars

\* the owner has just been refused a second addVerifier on the same verifier
C18_Witness ==
  /\ last.op = "addVerifier"
  /\ last.sender = owner
  /\ last.result = "Already a verifier"
  /\ \E v \in Senders : verifiers[v]

\* ------------------------------------------------------------ the halt flag
PauseStep == CallStep("pause") \/ CallStep("unpause")

C19_PauseDecision ==
  \A s \in Senders \ {owner} :
    /\ PauseResult(s) = "Ownable: caller is not the owner"
    /\ UnpauseResult(s) = "Ownable: caller is not the owner"

C19_PauseCallStep ==
  /\ (PauseStep /\ last'.result # OK) => UNCHANGED <<ledger, mintLog>>
  /\ (PauseStep /\ last'.sender # owner) => last'.result = "Ownable: caller is not the owner"
  /\ (PauseStep /\ last'.result = OK) =>
        /\ last'.sender = owner
        /\ _paused' = (last'.op = "pause")
        /\ _paused' # _paused
        /\ UNCHANGED <<_owner, _balances, _allowances, _totalSupply, creditMetadata,
                       totalMinted, totalRetired, verifiers, mintLog>>

\* C19 (pause and unpause are owner-only and change only the flag): a pause
\* or unpause by a caller other than the owner, a verifier included, is
\* rejected and leaves the flag as it is; one that succeeds was made by the
\* owner and changes the halt flag and nothing else: no balance, counter,
\* record or role.
C19_PauseOwnerOnlyFrame == [](C19_PauseDecision) /\ [][C19_PauseCallStep]_vars

\* a verifier holding credits has just been refused a pause
C19_Witness ==
  /\ last.op = "pause"
  /\ last.sender # owner
  /\ verifiers[last.sender]
  /\ last.result = "Ownable: caller is not the owner"
  /\ ~_paused
  /\ balanceOf(last.sender) > 0

\* the call that leaves the present halt state, made by s
LeaveHaltStateResult(s) == IF _paused THEN UnpauseResult(s) ELSE PauseResult(s)

\* the flag starts Active
C20_StartsActive == last.op = "constructor" => ~_paused

\* the flag changes only in a pause or unpause of the owner that succeeds
C20_FlagStep ==
  _paused' # _paused =>
    /\ PauseStep
    /\ last'.result = OK
    /\ last'.sender = owner
    /\ _paused' = (last'.op = "pause")

\* C20 as stated (halt state machine): the halt flag is Active initially,
\* changes only in a step that is a pause or an unpause issued by the owner,
\* and neither state is terminal: in every reachable state the owner can
\* make the call that leads to the other halt state.
C20_HaltStateMachineAsStated ==
  /\ [](C20_StartsActive /\ \E s \in Senders : s = owner /\ LeaveHaltStateResult(s) = OK)
  /\ [][C20_FlagStep]_vars

\* C20 as amended: the halt flag is Active initially and changes only in a
\* step that is a pause or an unpause issued by the owner; while the ledger
\* has an owner neither state is terminal (the owner can make the call that
\* leads to the other halt state), and once ownership has been renounced no
\* caller can change the flag and the ledger stays without an owner.
C20_HaltState ==
  /\ C20_StartsActive
  /\ owner # ZeroAddress => \E s \in Senders : s = owner /\ LeaveHaltStateResult(s) = OK
  /\ owner = ZeroAddress =>
        \A s \in Senders : PauseResult(s) # OK /\ UnpauseResult(s) # OK

C20_HaltStateMachine ==
  [](C20_HaltState) /\ [][C20_FlagStep /\ (_owner = ZeroAddress => _owner' = ZeroAddress)]_vars

\* the ledger was halted, changed hands, and its new owner has just lifted
\* the halt
C20_Witness ==
  /\ Did("unpause")
  /\ ~_paused
  /\ owner = last.sender
  /\ owner # Deployer
  /\ totalMinted > 0

\* ------------------------------------------------------- pause and unpause
\* a pause that succeeds sets the flag on an active ledger and leaves the rest
\* of the state; from then on every retire and transfer, and every mint of an
\* owner or verifier, is answered "Pausable: paused"
C21_PauseStep ==
  (CallStep("pause") /\ last'.result = OK) =>
    /\ ~_paused /\ _paused'
    /\ UNCHANGED <<_owner, _balances, _allowances, _totalSupply, creditMetadata,
                   totalMinted, totalRetired, verifiers, mintLog>>
    /\ \A s \in Senders, to \in Addr, amount \in Amounts :
          TransferResult(s, to, amount)' = "Pausable: paused"

\* a mint, retire or transfer attempted on the halted ledger is rejected and
\* leaves the state
C21_HaltedAttemptStep ==
  (_paused /\ (CallStep("mintCarbonCredits") \/ CallStep("retireCarbonCredits")
                 \/ CallStep("transfer"))) =>
    /\ last'.result # OK
    /\ UNCHANGED <<ledger, mintLog>>

\* an unpause that succeeds clears the flag and leaves the rest of the state,
\* and after it a call goes through exactly when its caller and arguments
\* pass the checks other than the pause, on the balances and roles that the
\* pause left untouched
C21_UnpauseStep ==
  (CallStep("unpause") /\ last'.result = OK) =>
    /\ _paused /\ ~_paused'
    /\ UNCHANGED <<_owner, _balances, _allowances, _totalSupply, creditMetadata,
                   totalMinted, totalRetired, verifiers, mintLog>>
    /\ \A s \in Senders, to \in Addr, amount \in Amounts :
          /\ TransferResult(s, to, amount) = "Pausable: paused"
          /\ TransferResult(s, to, amount)' = OK
                <=> (to # ZeroAddress /\ balanceOf(s) >= amount)
          /\ \A reason \in Reasons :
                RetireResult(s, amount, reason)' = OK
                  <=> (amount > 0 /\ balanceOf(s) >= amount /\ Len(reason) > 0)
          /\ \A rec \in MintRecords :
                MintResult(s, to, amount, rec)' = OK
                  <=> (Authorized(s) /\ MintArgErrors(to, amount, rec) = {})

\* C21 (pause then unpause is a round trip): a pause changes the halt flag
\* only, every mint, retire and transfer attempted while halted is rejected
\* and changes nothing, and the unpause changes the halt flag only, so the
\* state after the unpause is the state before the pause; a call rejected with
\* "Pausable: paused" goes through after the unpause exactly when its caller
\* and arguments pass the other checks on that state.
C21_PauseUnpauseRoundTrip ==
  [][C21_PauseStep /\ C21_HaltedAttemptStep /\ C21_UnpauseStep]_vars

\* the owner has just lifted a halt on a ledger with a verifier, a holder
\* and a retirement
C21_Witness ==
  /\ Did("unpause")
  /\ ~_paused
  /\ verifiers["A"]
  /\ balanceOf("A") > 0
  /\ totalRetired > 0

\* ---------------------------------------------------------------- the owner
OwnershipStep == CallStep("transferOwnership") \/ CallStep("renounceOwnership")

\* the owner mints and pauses whatever the verifier map says of it
C22_OwnerAuthority ==
  \A s \in Senders :
    s = owner =>
      /\ PauseResult(s) = (IF _paused THEN "Pausable: paused" ELSE OK)
      /\ \A to \in Senders, amount \in 1..MaxAmount, rec \in ValidRecords :
            MintResult(s, to, amount, rec) = (IF _paused THEN "Pausable: paused" ELSE OK)

\* a role call that succeeds, on the owner or on anyone, leaves what the
\* owner may do as it was
C22_RoleStepKeepsAuthority ==
  (RoleStep /\ last'.result = OK) =>
    /\ _owner' = _owner
    /\ \A s \in Senders :
          s = owner =>
            /\ PauseResult(s)' = PauseResult(s)
            /\ UnpauseResult(s)' = UnpauseResult(s)
            /\ \A to \in Addr, amount \in Amounts, rec \in MintRecords :
                  MintResult(s, to, amount, rec)' = MintResult(s, to, amount, rec)

\* C22 as stated (the owner is fixed): the owner is the deployer in every
\* reachable state, and mints and pauses regardless of the verifier map.
C22_OwnerFixedAsStated ==
  [](owner = Deployer /\ C22_OwnerAuthority) /\ [][C22_RoleStepKeepsAuthority]_vars

\* C22 as amended: the owner is the deployer at creation and changes only in
\* a transferOwnership or renounceOwnership that the current owner issues and
\* that succeeds; whoever is the owner mints and pauses regardless of the
\* verifier map, and a role call, on the owner or on anyone, never changes
\* what the owner may do.
C22_OwnerStep ==
  /\ C22_RoleStepKeepsAuthority
  /\ _owner' # _owner =>
        /\ OwnershipStep
        /\ last'.result = OK
        /\ last'.sender = _owner
        /\ last'.op = "renounceOwnership" <=> _owner' = ZeroAddress

C22_Owner ==
  []((last.op = "constructor" => owner = Deployer) /\ C22_OwnerAuthority)
  /\ [][C22_OwnerStep]_vars

\* an owner that is not the deployer has just been entered in the verifier map
C22_Witness ==
  /\ Did("addVerifier")
  /\ owner # Deployer
  /\ owner # ZeroAddress
  /\ verifiers[owner]

\* ------------------------------------------------------ verifier revocation
\* an account that is neither verifier nor owner is refused every mint
C23_RevokedCannotMint ==
  \A v \in Senders :
    ~Authorized(v) =>
      \A to \in Addr, amount \in Amounts, rec \in MintRecords :
        MintResult(v, to, amount, rec) = "Only verifier or owner"

\* a removeVerifier that succeeds clears the flag of one verifier, which if it
\* is not the owner is from then on not authorized, and keeps every balance
\* and record
C23_RemovalStep ==
  (CallStep("removeVerifier") /\ last'.result = OK) =>
    /\ \E v \in Senders :
          /\ verifiers[v] /\ ~verifiers'[v]
          /\ v # owner => ~Authorized(v)'
    /\ UNCHANGED <<_balances, creditMetadata, totalMinted, totalRetired, mintLog>>

\* C23 as stated (verifier revocation lasts): after a removeVerifier(v) that
\* succeeds for a non-owner v, v is not a verifier and every mint by v is
\* rejected with "Only verifier or owner", and in the step that follows the
\* removal v becomes authorized again only by an addVerifier that succeeds;
\* balances and records are kept.
C23_RevocationAsStated ==
  /\ [](C23_RevokedCannotMint)
  /\ [][/\ C23_RemovalStep
        /\ \A v \in Senders :
              (Did("removeVerifier") /\ ~Authorized(v) /\ Authorized(v)')
                => (CallStep("addVerifier") /\ last'.result = OK)]_vars

\* C23 as amended: the same, except that v becomes authorized again in an
\* addVerifier that succeeds or in a transferOwnership that makes v the owner.
C23_RevocationStep ==
  /\ C23_RemovalStep
  /\ \A v \in Senders :
        (~Authorized(v) /\ Authorized(v)') =>
          \/ CallStep("addVerifier") /\ last'.result = OK /\ verifiers'[v]
          \/ CallStep("transferOwnership") /\ last'.result = OK /\ _owner' = v

C23_Revocation == [](C23_RevokedCannotMint) /\ [][C23_RevocationStep]_vars

\* a holder that was a verifier has just lost the role and keeps its credits
\* next to the batch in the registry
C23_Witness ==
  /\ Did("removeVerifier")
  /\ ~Authorized("A")
  /\ balanceOf("A") > 0
  /\ BatchCount > 0

\* ----------------------------------------------------------- initial state
\* C24 (initial state): in the state the constructor leaves, the owner is the
\* deployer, the halt flag is false, totalMinted, totalRetired and the supply
\* are 0, every balance and allowance is 0, no account is a verifier, no
\* metadata slot is written and every lookup fails with "Token ID does not
\* exist".
C24_InitialState ==
  last.op = "constructor" =>
    /\ owner = Deployer
    /\ ~_paused
    /\ totalMinted = 0 /\ totalRetired = 0 /\ _totalSupply = 0
    /\ \A a \in Addr : balanceOf(a) = 0 /\ ~verifiers[a]
    /\ \A p \in Addr \X Addr : _allowances[p] = 0
    /\ DOMAIN creditMetadata = {}
    /\ BatchCount = 0
    /\ \A id \in TokenIds :
          /\ GetMetadataResult(id) = "Token ID does not exist"
          /\ getCarbonCreditMetadata(id) = EmptyMetadata

\* the ledger as deployed, before any call
C24_Witness ==
  /\ last = Call("constructor", Deployer, OK)
  /\ owner = Deployer
  /\ totalMinted = 0

\* ------------------------------------------------------------ failed calls
MutatingCalls ==
  {"mintCarbonCredits", "retireCarbonCredits", "transfer", "transferFrom", "approve",
   "addVerifier", "removeVerifier", "pause", "unpause",
   "transferOwnership", "renounceOwnership"}

\* C25 (atomicity of failure): a step that is a rejected call of mint,
\* retire, transfer, addVerifier, removeVerifier, pause or unpause (or of
\* another state-changing function), whatever the reason, leaves balances,
\* allowances, supply, totalMinted, totalRetired, every record, the verifier
\* set, the owner and the halt flag as they were.
C25_FailureIsAtomic ==
  [][(now' = now /\ last'.op \in MutatingCalls /\ last'.result # OK)
        => UNCHANGED <<ledger, mintLog>>]_vars

\* a holder next to an unretired batch has just been refused a retirement
\* above its balance
C25_Witness ==
  /\ last.op = "retireCarbonCredits"
  /\ last.result = "Insufficient balance"
  /\ balanceOf(last.sender) > 0
  /\ IsBatch(0)
  /\ ~Meta(0).isRetired

\* ------------------------------------------------------------- audit trail
\* the events of one kind among those a call emitted, and their amounts summed
EventsOf(kind, emitted) ==
  {i \in DOMAIN emitted : emitted[i].event = kind}
RECURSIVE AmountOf(_, _)
AmountOf(kind, emitted) ==
  IF emitted = <<>> THEN 0
  ELSE (IF Head(emitted).event = kind THEN Head(emitted).amount ELSE 0)
       + AmountOf(kind, Tail(emitted))

\* C26 (audit trail): a mint that succeeds emits exactly one
\* CarbonCreditMinted carrying the recipient credited, the amount minted, the
\* projectId and verificationId of the record it stored and the time of the
\* call, and no retire event; a retire that succeeds emits exactly one
\* CarbonCreditRetired carrying the caller, the amount retired, a non-empty
\* reason and the time of the call, and no mint event; a rejected call emits
\* nothing; and every call moves totalMinted and totalRetired by the amounts
\* of the mint and retire events it emitted, so the events in the order of
\* the calls add up to the counters.
C26_AuditStep ==
  now' = now =>
    LET emitted == last'.emitted
        rec == mintLog'[Len(mintLog')]
    IN /\ last'.result # OK => emitted = <<>>
       /\ totalMinted' = totalMinted + AmountOf("CarbonCreditMinted", emitted)
       /\ totalRetired' = totalRetired + AmountOf("CarbonCreditRetired", emitted)
       /\ MintStep =>
             /\ Len(emitted) = 1
             /\ \E to \in Senders :
                   /\ _balances'[to] = _balances[to] + emitted[1].amount
                   /\ emitted[1] = CarbonCreditMinted(to, totalMinted' - totalMinted,
                                                      rec.projectId, rec.verificationId, now)
       /\ RetireStep =>
             /\ Len(emitted) = 1
             /\ \E reason \in Reasons \ {""} :
                   emitted[1] = CarbonCreditRetired(last'.sender, totalRetired' - totalRetired,
                                                    reason, now)
             /\ _balances'[last'.sender] = _balances[last'.sender] - emitted[1].amount
       /\ ~(MintStep \/ RetireStep) =>
             EventsOf("CarbonCreditMinted", emitted) \cup EventsOf("CarbonCreditRetired", emitted) = {}

C26_AuditTrail == [][C26_AuditStep]_vars

\* a retirement has just been logged at a block time later than the first mint
C26_Witness ==
  /\ Did("retireCarbonCredits")
  /\ Len(last.emitted) = 1
  /\ last.emitted[1].retirementDate = now
  /\ IsBatch(0)
  /\ Meta(0).verificationDate < now
  /\ BatchCount >= 2

\* ------------------------------------------------------ scan and cursor
\* the indices marked retired, and the cursor a registry with an explicit
\* "next unretired index" would hold: the number of indices marked so far
Marked == {i \in DOMAIN creditMetadata : creditMetadata[i].isRetired}
Cursor == Cardinality(Marked)

C27_CursorState ==
  /\ Marked = 0..(Cursor - 1)
  /\ Cursor <= totalRetired
  /\ totalRetired <= totalMinted
  /\ \A c \in Senders, amount \in Amounts, reason \in Reasons :
        RetireResult(c, amount, reason) = OK =>
          /\ ScanUnretired(0) = Cursor
          /\ Cursor < totalMinted

C27_CursorStep ==
  /\ RetireStep => Marked' = Marked \cup {Cursor}
  /\ RetireStep => Cursor' = Cursor + 1
  /\ Marked' # Marked => RetireStep

\* C27 (scan equals cursor): the indices marked retired are exactly
\* 0..r-1, where r, the number of retire calls that succeeded, starts at 0 and
\* grows by one in every successful retire and in no other step;
\* r <= totalRetired <= totalMinted; and whenever a retire passes its
\* preconditions the scan from 0 bounded by totalMinted stops at index r.
C27_ScanEqualsCursor == [](C27_CursorState) /\ [][C27_CursorStep]_vars

\* the second retirement against a single batch has just marked index 1
C27_Witness ==
  /\ Did("retireCarbonCredits")
  /\ BatchCount = 1
  /\ Marked = {0, 1}
  /\ totalRetired = 2

\* C28 (retired records were minted): every index whose record has
\* isRetired = TRUE carries the non-empty projectId and verificationId of one
\* successful mint.
C28_RetiredRecordsWereMinted ==
  \A i \in Marked :
    /\ Len(creditMetadata[i].projectId) > 0
    /\ Len(creditMetadata[i].verificationId) > 0
    /\ \E n \in 1..BatchCount : SameProject(creditMetadata[i], mintLog[n])

\* no record and no retirement mark at or above totalMinted
C29_KeysBelowMinted == \A i \in DOMAIN creditMetadata : i < totalMinted

C29_KeyStep ==
  MintStep =>
    /\ AmountOf("CarbonCreditMinted", last'.emitted) > 0
    /\ totalMinted' = totalMinted + AmountOf("CarbonCreditMinted", last'.emitted)
    /\ totalMinted \notin DOMAIN creditMetadata
    /\ \A j \in DOMAIN creditMetadata : j < totalMinted
    /\ DOMAIN creditMetadata' = DOMAIN creditMetadata \cup {totalMinted}
    /\ creditMetadata'[totalMinted] = NewMetadata(mintLog'[BatchCount + 1])
    /\ \A j \in DOMAIN creditMetadata : creditMetadata'[j] = creditMetadata[j]

\* C29 (mint keys never collide): a successful mint stores its record at
\* the value totalMinted had before the call, which is the sum of the amounts
\* of the earlier mints; that key is above every index that holds a record or
\* a retirement mark, so the mint overwrites neither, and the next key is
\* larger by the positive amount of this mint.
C29_MintKeysNeverCollide == [](C29_KeysBelowMinted) /\ [][C29_KeyStep]_vars

\* a second batch has just been stored above two retired indices
C29_Witness ==
  /\ Did("mintCarbonCredits")
  /\ BatchCount = 2
  /\ Marked = {0, 1}
  /\ IsBatch(2)

\* ------------------------------------------------- allowances and the halt
allowance(holder, spender) == _allowances[<<holder, spender>>]

\* a halted ledger turns every transferFrom away as it does every transfer
C30_HaltedGate ==
  _paused =>
    \A s \in Senders, from \in Addr, to \in Addr, amount \in Amounts :
      /\ TransferFromResult(s, from, to, amount) = "Pausable: paused"
      /\ TransferFromResult(s, from, to, amount) = TransferResult(from, to, amount)

C30_AllowanceStep ==
  /\ (CallStep("approve") /\ last'.result = OK) =>
        /\ \E spender \in Addr, amount \in Amounts :
              _allowances' =
                [p \in DOMAIN _allowances |->
                   IF p = <<last'.sender, spender>> THEN amount ELSE _allowances[p]]
        /\ UNCHANGED <<_balances, _totalSupply, totalMinted, totalRetired,
                       creditMetadata, verifiers, _paused, _owner>>
  /\ (CallStep("transferFrom") /\ _paused) =>
        /\ last'.result = "Pausable: paused"
        /\ UNCHANGED <<ledger, mintLog>>
  /\ ((CallStep("approve") \/ CallStep("transferFrom")) /\ _paused) =>
        _balances' = _balances

\* C30 (allowances obey the pause gate): on a halted ledger every
\* transferFrom is rejected with the error of a halted transfer and changes
\* nothing; an approve that succeeds, halted or not, sets the allowance of the
\* caller for the spender to the amount and changes no balance, counter,
\* record, role or flag; so no approve or transferFrom changes a balance while
\* the ledger is halted.
C30_AllowancePauseGate == [](C30_HaltedGate) /\ [][C30_AllowanceStep]_vars

\* halted: a transferFrom that allowance and balance would cover has just
\* been turned away
C30_Witness ==
  /\ _paused
  /\ last.op = "transferFrom"
  /\ last.result = "Pausable: paused"
  /\ last.sender = "A"
  /\ allowance(Deployer, "A") >= 1
  /\ balanceOf(Deployer) >= 1

\* ------------------------------------------------------ the null identity
C31_NullRejected ==
  /\ ~verifiers[ZeroAddress]
  /\ \A s \in Senders : AddVerifierResult(s, ZeroAddress) # OK
  /\ owner \in Senders => AddVerifierResult(owner, ZeroAddress) = "Invalid verifier address"

C31_NullStep ==
  /\ verifiers'[ZeroAddress] = verifiers[ZeroAddress]
  /\ (CallStep("addVerifier") /\ last'.result = "Invalid verifier address") =>
        UNCHANGED <<ledger, mintLog>>

\* C31 (null verifier): addVerifier of the zero address is rejected for
\* every caller, for the owner with "Invalid verifier address", and the call
\* changes nothing; no step puts the zero address into the verifier set, so it
\* is in the set in no reachable state.
C31_NullNeverVerifier == [](C31_NullRejected) /\ [][C31_NullStep]_vars

\* the owner has just been refused the zero address, with a verifier in place
C31_Witness ==
  /\ last.op = "addVerifier"
  /\ last.sender = owner
  /\ last.result = "Invalid verifier address"
  /\ verifiers["A"]

\* ------------------------------------------------- the standalone token
\* the step is a call of op on the standalone token that changed its state or
\* its outcome record
StandaloneStep(op) == standalone' # standalone /\ standalone'.last.op = op
StandaloneDid(op) == standalone.last.op = op /\ standalone.last.result = OK

C32_SupplyIsSum == standalone.totalSupply = Sum(standalone.balances, Addr)

C32_SupplyStep ==
  /\ StandaloneStep("transfer") =>
        standalone'.totalSupply = standalone.totalSupply
  /\ (StandaloneStep("burn") /\ standalone'.last.result = OK) =>
        LET from == standalone'.last.sender
            amount == standalone.totalSupply - standalone'.totalSupply
        IN /\ amount >= 0
           /\ standalone'.balances =
                [a \in Addr |-> IF a = from THEN standalone.balances[a] - amount
                                ELSE standalone.balances[a]]

\* C32 (standalone supply): in every state of the standalone token
\* totalSupply is the sum of all balances, the zero address included; no
\* transfer changes totalSupply; a burn lowers totalSupply and the balance of
\* the caller by one and the same amount and touches no other balance.
C32_StandaloneSupply == [](C32_SupplyIsSum) /\ [][C32_SupplyStep]_vars

\* a transfer has just left credits at the zero address, still counted in
\* the supply
C32_Witness ==
  /\ StandaloneDid("transfer")
  /\ standalone.balances[ZeroAddress] >= 1
  /\ standalone.totalSupply >= 2

C33_Decisions ==
  /\ standalone.owner = Deployer
  /\ \A s \in Senders, to \in Addr :
        StandaloneMintResult(s, to) = OK <=> (s = Deployer /\ to # ZeroAddress)
  /\ \A s \in Senders, amount \in Amounts :
        amount > standalone.balances[s] =>
          StandaloneBalanceCheck(s, amount) = "insufficient"

C33_GainStep ==
  /\ standalone'.last.result # OK =>
        /\ standalone'.balances = standalone.balances
        /\ standalone'.totalSupply = standalone.totalSupply
  /\ \A a \in Addr :
        standalone'.balances[a] > standalone.balances[a] =>
          LET gain == standalone'.balances[a] - standalone.balances[a]
              s == standalone'.last.sender
          IN /\ standalone'.last.result = OK
             /\ \/ /\ standalone'.last.op = "mint"
                   /\ s = Deployer
                   /\ a # ZeroAddress
                   /\ standalone'.totalSupply = standalone.totalSupply + gain
                \/ /\ standalone'.last.op = "transfer"
                   /\ s # a
                   /\ standalone'.balances[s] = standalone.balances[s] - gain
                   /\ standalone'.totalSupply = standalone.totalSupply

\* C33 (standalone guards): the owner is the deployer in every state; a
\* mint is accepted exactly for the owner and a non-zero recipient; a transfer
\* or burn above the balance of the caller is rejected, and a rejected call
\* leaves balances and totalSupply as they were; a balance grows only in a
\* mint by the owner to that account or in a transfer to it out of the
\* balance of another account.
C33_StandaloneGuards == [](C33_Decisions) /\ [][C33_GainStep]_vars

\* a holder who is not the owner has just been refused a mint
C33_Witness ==
  /\ standalone.last.op = "mint"
  /\ standalone.last.sender = "A"
  /\ standalone.last.result = "only owner"
  /\ standalone.balances["A"] >= 1

\* ------------------------------------------------- the fallback chain
\* the send functions in the order loop() lists them, with the flags each is
\* compiled under
TransportOrder == <<"wifi_send_http", "wifi_send_mqtt", "lora_send", "gsm_send_http">>
FlagsOf(transport) ==
  CASE transport = "wifi_send_http" -> {"ENABLE_WIFI", "SEND_OVER_HTTP"}
    [] transport = "wifi_send_mqtt" -> {"ENABLE_WIFI", "SEND_OVER_MQTT"}
    [] transport = "lora_send" -> {"ENABLE_LORA"}
    [] transport = "gsm_send_http" -> {"ENABLE_GSM"}
IsEnabled(transport) == FlagsOf(transport) \subseteq esp32.flags
EnabledOrder == SelectSeq(TransportOrder, IsEnabled)
Tried == [i \in 1..Len(esp32.attempted) |-> esp32.attempted[i].transport]
Successes == {i \in 1..Len(esp32.attempted) : esp32.attempted[i].ok}

C34_ChainState ==
  /\ Len(Tried) <= Len(EnabledOrder)
  /\ \A i \in 1..Len(Tried) : Tried[i] = EnabledOrder[i]
  /\ Cardinality(Successes) <= 1
  /\ Successes \subseteq {Len(Tried)}
  /\ esp32.sent <=> Successes # {}
  /\ esp32.report = "[TX] Success" => Successes # {}
  /\ esp32.report = "[TX] Failed (no link)" =>
        (Successes = {} /\ Tried = EnabledOrder)

C34_ChainStep ==
  /\ (esp32.sent /\ esp32'.pc # "http") => esp32'.attempted = esp32.attempted
  /\ esp32'.report # esp32.report =>
        \/ esp32'.report = ""
        \/ esp32'.report = IF Successes # {} THEN "[TX] Success"
                           ELSE "[TX] Failed (no link)"

\* C34 (transport fallback): in every iteration of loop() the sends
\* attempted are an initial part of the compiled-in transports taken in the
\* order WiFi-HTTP, WiFi-MQTT, LoRa, GSM-HTTP; only the last send attempted can
\* have reported success, and once one has, nothing more is attempted in the
\* iteration; the iteration prints success exactly when a send reported
\* success, and prints failure only after every compiled-in transport was
\* attempted and none reported success.
C34_TransportFallback == [](C34_ChainState) /\ [][C34_ChainStep]_vars

\* with three transports compiled in, the second one succeeded after the
\* first failed, and the iteration printed success without trying the third
C34_Witness ==
  /\ esp32.report = "[TX] Success"
  /\ Len(EnabledOrder) >= 3
  /\ Len(Tried) = 2
  /\ ~esp32.attempted[1].ok

\* --------------------------------------------------------- wifi_init
WifiSends ==
  {i \in 1..Len(esp32.attempted) :
     esp32.attempted[i].transport \in {"wifi_send_http", "wifi_send_mqtt"}}

\* what wifi_init returns, and what the WiFi sends do without a link
C35_Returns ==
  /\ wifi.connects <= MaxMqttTries
  /\ wifi.tries <= MaxMqttTries
  /\ ~Enabled("SEND_OVER_MQTT") => wifi.connects = 0
  /\ wifi.pc = "returned" =>
        (wifi.ret <=> /\ wifi.status = "WL_CONNECTED"
                      /\ Enabled("SEND_OVER_MQTT") => wifi.mqtt)
  /\ \A i \in WifiSends :
        ~esp32.attempted[i].linked =>
          (~esp32.attempted[i].transmitted /\ ~esp32.attempted[i].ok)

C35_Terminates == (wifi.pc = "poll") ~> (wifi.pc = "returned")

\* C35 as stated (wifi_init): the WiFi status is read at most 40 times and
\* the broker connection attempted at most 3 times; true is returned only
\* with WiFi connected (and the MQTT client connected when MQTT is compiled
\* in), false otherwise; a WiFi send without a link returns false and sends
\* nothing.
C35_WifiInitAsStated ==
  /\ wifi.polls <= MaxWifiAttempts
  /\ C35_Returns

\* the waits and the status reads of wifi_init
C35_Waits ==
  /\ wifi.attempts <= MaxWifiAttempts
  /\ wifi.polls <= wifi.attempts + 2
  /\ wifi.pc = "poll" => wifi.polls = wifi.attempts

\* C35 as amended (wifi_init): wifi_init always returns; it waits at most
\* 40 times and reads the WiFi status at most 42 times, once for every
\* evaluation of the loop condition and once after the loop; with MQTT compiled
\* in it attempts the broker connection at most 3 times; it returns true
\* exactly when its last status read found WiFi connected (and its last read of
\* the MQTT client found it connected when MQTT is compiled in); a WiFi send
\* that finds no link returns false and sends nothing.
C35_WifiInit == [](C35_Waits /\ C35_Returns) /\ C35_Terminates

\* wifi_init has given up after the last wait: 40 waits, 42 status reads
C35_Witness ==
  /\ wifi.pc = "returned"
  /\ ~wifi.ret
  /\ wifi.attempts = MaxWifiAttempts
  /\ wifi.polls = MaxWifiAttempts + 2

\* ------------------------------------------------- soil moisture
C36_Range ==
  (soil.pc # "none" /\ soil._dryRaw > soil._wetRaw) =>
    /\ \A raw \in RawValues :
          /\ MoistureOf(raw) \in 0..100
          /\ raw >= soil._dryRaw => MoistureOf(raw) = 0
          /\ raw <= soil._wetRaw => MoistureOf(raw) = 100
    /\ \A r1 \in RawValues, r2 \in RawValues :
          r1 <= r2 => MoistureOf(r1) >= MoistureOf(r2)
    /\ soil.pc = "read" => soil.moisture = MoistureOf(soil.raw)

\* C36 (soil moisture): with _dryRaw > _wetRaw readMoisture returns, for
\* every raw reading, a value in 0..100: 0 at or above _dryRaw, 100 at or
\* below _wetRaw, and never a larger value for a larger reading.
C36_MoistureRange == C36_Range

\* a reading strictly between the calibration points came back strictly
\* between 0 and 100
C36_Witness ==
  /\ soil.pc = "read"
  /\ soil._wetRaw < soil.raw
  /\ soil.raw < soil._dryRaw
  /\ soil.moisture > 0
  /\ soil.moisture < 100
  /\ soil.moisture = MoistureOf(soil.raw)

====
